---- MODULE Spec2Model ----
(***************************************************************************)
(* A model of lab8/ataix_lab08.py: run_lab and the functions it calls.     *)
(*                                                                         *)
(* Numbers are fixed-point integers:                                       *)
(*   funds (USDT)        in units of 1/FundsUnit  (cents)                  *)
(*   prices              in units of 1/PriceUnit  (10^-6)                  *)
(*   quantities          in units of 1/QtyUnit    (10^-3)                  *)
(* A value the code computes by division (a quantity) is carried as an     *)
(* exact fraction <<num, den>> until the code rounds or floors it.  The    *)
(* code's binary floating point is not exact: where the exact decimal      *)
(* value sits on a rounding tie or on an exact multiple of the lot size,   *)
(* the direction the float computation takes is an input of the action     *)
(* (tieUp, stepDown) and both directions are explored.                     *)
(***************************************************************************)
EXTENDS Integers, Sequences, FiniteSets, TLC

VARIABLES
    file,       \* the persisted document's "orders" list (orders.json)
    torn,       \* TRUE when the persisted document is not parseable JSON
    saved,      \* run_lab's in-memory saved["orders"]
    pc,         \* position of run_lab: idle, resolve, place, poll, sell
    run,        \* number of invocations of run_lab so far (also the clock)
    pair,       \* run_lab's argument pair
    usdt,       \* run_lab's argument usdt_amount
    use_usdt,   \* run_lab's local use_usdt
    srec,       \* run_lab's local srec (the instrument record)
    to_place,   \* run_lab's local to_place
    ci,         \* index into to_place of the candidate being placed
    idx,        \* index of the status-check loop (enumerate)
    sell,       \* the sell about to be placed: [price, qty] (pc = "sell")
    nextId,     \* the exchange's next order identifier
    \* history of the current run, kept for the properties
    loaded,     \* the store as load_saved returned it
    placed,     \* indices of to_place whose buy was accepted and recorded
    attempts,   \* number of buy placement requests issued
    polled,     \* store indices for which a status lookup was issued
    sellReq,    \* per store index, the number of sell placement requests
    denied,     \* what request of this run was answered 401/403, "" if none
    deniedAt,   \* the candidate index whose placement was answered 401/403
    lastReq,    \* the last request sent to POST /api/orders and its response
    outcome,    \* how the last run ended: none, done, fatal, denied, crash
    balance,    \* what the balance request of this run obtained
    lost,       \* placements accepted right before the process was interrupted
    wiped,      \* TRUE once an unparseable document was read as an empty store
    \* one call of try_request, followed variant by variant
    tr          \* its position, arguments, attempts so far and result

labVars == <<file, torn, saved, pc, run, pair, usdt, use_usdt, srec, to_place, ci,
             idx, sell, nextId, loaded, placed, attempts, polled, sellReq, denied,
             deniedAt, lastReq, outcome, balance, lost, wiped>>

vars == <<file, torn, saved, pc, run, pair, usdt, use_usdt, srec, to_place, ci,
          idx, sell, nextId, loaded, placed, attempts, polled, sellReq, denied,
          deniedAt, lastReq, outcome, balance, lost, wiped, tr>>

-----------------------------------------------------------------------------
(* Bounds of the model *)

MaxRuns == 2          \* invocations of run_lab in a behaviour of Spec
MaxBuys == 2          \* buy records the store may come to hold in Spec
MaxCalls == 2                   \* calls of try_request that are followed
MaxPlaceRuns == 1     \* invocations of run_lab in a behaviour of SpecPlace

(* Units of the fixed-point numbers *)

FundsUnit == 100
PriceUnit == 1000000
QtyUnit == 1000

-----------------------------------------------------------------------------
(* Values *)

None == 0                       \* Python's None where an order id is expected
NoResponse == 0                 \* try_request returned (None, {})
Responses == {NoResponse, 200, 401, 403, 500}

Min(a, b) == IF a <= b THEN a ELSE b

Pow10(n) == CASE n = 0 -> 1 [] n = 1 -> 10 [] n = 2 -> 100 [] n = 3 -> 1000
              [] n = 4 -> 10000 [] n = 5 -> 100000 [] n = 6 -> 1000000

\* n/d rounded to the nearest integer; on an exact tie the direction is up
RoundHalf(n, d, up) ==
    LET q == n \div d
        r == n % d
    IN  IF 2 * r < d THEN q
        ELSE IF 2 * r > d THEN q + 1
        ELSE IF up THEN q + 1 ELSE q

\* int(n/d) for n, d > 0; on an exact multiple the float quotient may fall
\* just below the integer (0.7 / 0.1 = 6.999999999999999)
FloorSteps(n, d, down) ==
    LET q == n \div d
    IN  IF n % d = 0 /\ q > 0 /\ down THEN q - 1 ELSE q

-----------------------------------------------------------------------------
(* HTTP outcomes *)

resp_ok(resp) == resp # NoResponse /\ resp >= 200 /\ resp < 400

IsAuthDenied(resp) == resp \in {401, 403}

\* get_balance: the balance JSON, or the exception it raises
get_balance(resp) ==
    IF resp = NoResponse THEN "RuntimeError"
    ELSE IF IsAuthDenied(resp) THEN "PermissionError"
    ELSE IF ~resp_ok(resp) THEN "RuntimeError"
    ELSE "json"

\* extract_available_usdt: body.avail is the parsed result.available (or
\* free/total), body.parsed tells whether any of them was present and numeric
extract_available_usdt(body, fallback) ==
    IF body.parsed THEN body.avail ELSE fallback

\* load_saved: the orders of the document, empty when it cannot be parsed
load_saved(f, isTorn) == IF isTorn THEN <<>> ELSE f

\* save_saved that writes only when a record was appended
SaveOnAppendOnly(old, data) == IF Len(data) > Len(old) THEN data ELSE old

\* save_saved: the document is rewritten in full with the store in memory
save_saved(old, data) == data

-----------------------------------------------------------------------------
(* Order sizing: run_lab, "Логика распределения" and "Формируем кандидатов" *)

Percent == 100
deltas == <<98, 95, 92>>        \* 0.98, 0.95, 0.92 in percent

\* get_symbol_limits, for a record that carries every field
get_symbol_limits(rec) ==
    [lotSize |-> rec.lotSize, minQty |-> rec.minQty, minNotional |-> rec.minNotional]

\* per_order_usdt < limits["minNotional"], per_order_usdt being use / k
BelowNotional(use, k, limits) == use < k * limits.minNotional

\* the deltas and the divisor k of per_order_usdt = use_usdt / k
Tiers(use, limits) ==
    IF BelowNotional(use, 3, limits)
    THEN [deltas |-> <<98>>, k |-> 1]
    ELSE [deltas |-> deltas, k |-> 3]

\* one candidate: price = best_bid * d, qty_raw = per_order_usdt / price.
\* qty_raw is the fraction qnum/qden of 1/QtyUnit; d and k are the loop's d
\* and the divisor of per_order_usdt it was computed with.
Candidate(use, k, best_bid, d) ==
    [price |-> best_bid * d * (PriceUnit \div (FundsUnit * Percent)),
     qnum  |-> use * Percent * QtyUnit,
     qden  |-> k * best_bid * d,
     d     |-> d,
     k     |-> k]

\* TooSmall without the test of the quantity
TooSmallNotionalOnly(c, use, limits) == BelowNotional(use, c.k, limits)

\* (qty_raw < minQty) or (per_order_usdt < minNotional): the candidate is skipped
TooSmall(c, use, limits) ==
    \/ c.qnum < limits.minQty * c.qden
    \/ BelowNotional(use, c.k, limits)

RECURSIVE FilterCandidates(_, _, _, _, _)
FilterCandidates(ds, use, k, best_bid, limits) ==
    IF ds = <<>> THEN <<>>
    ELSE LET c == Candidate(use, k, best_bid, Head(ds))
             rest == FilterCandidates(Tail(ds), use, k, best_bid, limits)
         IN  IF TooSmall(c, use, limits) THEN rest ELSE <<c>> \o rest

Sizing(use, best_bid, limits) ==
    LET t == Tiers(use, limits)
    IN  FilterCandidates(t.deltas, use, t.k, best_bid, limits)

-----------------------------------------------------------------------------
(* place_order: the request body *)

\* float(f"{price:.{price_prec}f}") of the price pnum/pden
RoundPrice(pnum, pden, price_prec, tieUp) ==
    LET step == PriceUnit \div Pow10(price_prec)
    IN  step * RoundHalf(pnum, pden * step, tieUp)

\* steps = int(quantity / lot_size); q = steps * lot_size
FloorQty(qnum, qden, lot_size, stepDown) ==
    FloorSteps(qnum, qden * lot_size, stepDown) * lot_size

\* float(f"{q:.8f}"): q is a multiple of lot_size, itself a multiple of
\* 1/QtyUnit, so rounding to 8 decimals gives q back
Fmt8(q) == RoundHalf(q * 1, 1, FALSE)

OrderBody(symbol, side, pnum, pden, qnum, qden, rec, tieUp, stepDown) ==
    [symbol   |-> symbol,
     side     |-> side,
     type     |-> "limit",
     price    |-> RoundPrice(pnum, pden, rec.pricePrecision, tieUp),
     quantity |-> Fmt8(FloorQty(qnum, qden, rec.lotSize, stepDown))]

\* what place_order does with the response: the JSON, or the exception
place_order(resp) ==
    IF resp = NoResponse THEN "RuntimeError"
    ELSE IF IsAuthDenied(resp) THEN "PermissionError"
    ELSE IF ~resp_ok(resp) THEN "RuntimeError"
    ELSE "json"

\* extract_order_id: the response carries the identifier at the top level
\* ("top"), inside result ("result"), or under no key the function knows
extract_order_id(resp_json) ==
    IF resp_json.shape = "top" THEN resp_json.id
    ELSE IF resp_json.shape = "result" THEN resp_json.id
    ELSE None

\* float(f"{x:.10f}") of the fraction n/d, on the model's grid
Fmt10(n, d, tieUp) == RoundHalf(n, d, tieUp)

NoRaw == [status |-> "", avgPrice |-> [k |-> "none", v |-> 0],
          filled |-> [k |-> "none", v |-> 0], nested |-> FALSE]

\* the entry run_lab appends for an accepted buy
BuyEntry(c, symbol, resp_json, now, tieUp) ==
    [side |-> "buy",
     price |-> Fmt10(c.price, 1, tieUp),
     quantity |-> Fmt10(c.qnum, c.qden, tieUp),
     pair |-> symbol,
     order_id |-> extract_order_id(resp_json),
     status |-> "NEW",
     created_raw_response |-> resp_json,
     linked_sell_order |-> None,
     linked_buy_order |-> None,
     has_status_raw |-> FALSE,
     status_raw_response |-> NoRaw,
     created_at |-> now]

-----------------------------------------------------------------------------
(* Status check: what run_lab reads from a status response *)

NoVal == [k |-> "none", v |-> 0]
Num(n) == [k |-> "num", v |-> n]
Str == [k |-> "str", v |-> 0]       \* a string float() cannot parse

\* Python truthiness of a parsed JSON value (x or y)
Truthy(x) == x.k = "str" \/ (x.k = "num" /\ x.v # 0)

\* get_order_status over its three candidate paths: the first 401/403 raises
\* PermissionError, the first success returns, anything else moves on
RECURSIVE get_order_status(_)
get_order_status(resps) ==
    IF resps = <<>> THEN "RuntimeError"
    ELSE IF Head(resps) = NoResponse THEN get_order_status(Tail(resps))
    ELSE IF IsAuthDenied(Head(resps)) THEN "PermissionError"
    ELSE IF resp_ok(Head(resps)) THEN "json"
    ELSE get_order_status(Tail(resps))

\* str.lower() and str.upper() on the status strings of the model
Lower(s) ==
    CASE s = "FILLED" -> "filled"
      [] s = "PartiallyFilled" -> "partiallyfilled"
      [] s = "Open" -> "open"
      [] OTHER -> s
Upper(s) ==
    CASE s = "new" -> "NEW"
      [] s = "open" -> "OPEN"
      [] s = "partially_filled" -> "PARTIALLY_FILLED"
      [] s = "partiallyfilled" -> "PARTIALLYFILLED"
      [] OTHER -> s

\* the status run_lab stores for a record of quantity qty
Normalize(status, filled_amount, qty) ==
    LET norm == Lower(status)
    IN  IF norm \in {"filled", "done", "closed", "executed"} THEN "FILLED"
        ELSE IF norm \in {"new", "open", "partially_filled", "partiallyfilled"}
             THEN Upper(norm)
        ELSE IF filled_amount.k = "num" /\ filled_amount.v >= qty THEN "FILLED"
        ELSE "NEW"

\* SkipPoll without the test of the side
SkipPollAnySide(entry) ==
    \/ entry.status \in {"FILLED", "CLOSED"}
    \/ entry.order_id = None

\* SkipPoll without the test of the status
SkipPollAnyStatus(entry) ==
    \/ entry.side # "buy"
    \/ entry.order_id = None

\* the loop's three continue statements: not a buy, already FILLED/CLOSED,
\* no order_id
SkipPoll(entry) ==
    \/ entry.side # "buy"
    \/ entry.status \in {"FILLED", "CLOSED"}
    \/ entry.order_id = None

\* if entry["status"] == "FILLED" and not entry.get("linked_sell_order")
WantsSell(entry) == entry.status = "FILLED" /\ entry.linked_sell_order = None

\* BoughtPrice that never looks at the reported average price
BoughtPriceEntryOnly(avg_price, entry) == [ok |-> TRUE, v |-> entry.price]

\* bought_price = float(avg_price) if avg_price else float(entry["price"]);
\* ok is FALSE for the ValueError float() raises on an unparsable string
BoughtPrice(avg_price, entry) ==
    IF Truthy(avg_price)
    THEN [ok |-> avg_price.k = "num", v |-> avg_price.v]
    ELSE [ok |-> TRUE, v |-> entry.price]

\* status = st.get("status") or ...; avg_price = st.get("avgPrice") or ...;
\* filled_amount = st.get("filledAmount") or ...: a falsy value reads as None
StatusOf(st) == st.status
AvgOf(st) == IF Truthy(st.avgPrice) THEN st.avgPrice ELSE NoVal
FilledOf(st) == IF Truthy(st.filled) THEN st.filled ELSE NoVal

\* the entry run_lab appends for an accepted sell
SellEntry(bought, entry, symbol, resp_json, now, tieUp) ==
    [side |-> "sell",
     price |-> Fmt10(bought * 102, 100, tieUp),
     quantity |-> Fmt10(entry.quantity, 1, tieUp),
     pair |-> symbol,
     order_id |-> extract_order_id(resp_json),
     status |-> "NEW",
     created_raw_response |-> resp_json,
     linked_sell_order |-> None,
     linked_buy_order |-> entry.order_id,
     has_status_raw |-> FALSE,
     status_raw_response |-> NoRaw,
     created_at |-> now]

-----------------------------------------------------------------------------
(* What the handlers of run_lab do with the result of a call *)

\* BuyHandler with PermissionError logged like any other exception
BuyHandlerNoAbort(resp) ==
    CASE place_order(resp) = "json" -> "record"
      [] OTHER -> "continue"

\* BuyHandler that gives up the run on any failure
BuyHandlerAbortAny(resp) ==
    CASE place_order(resp) = "json" -> "record"
      [] OTHER -> "abort"

\* lines 355-377: append and go on, go on without a record, or abort the run
BuyHandler(resp) ==
    CASE place_order(resp) = "json" -> "record"
      [] place_order(resp) = "PermissionError" -> "abort"
      [] OTHER -> "continue"

\* lines 431-452: "except Exception" also catches PermissionError
SellHandler(resp) ==
    CASE place_order(resp) = "json" -> "record"
      [] OTHER -> "continue"

\* StatusHandler that lets every exception of the lookup end the run
StatusHandlerAbortAny(resps) ==
    CASE get_order_status(resps) = "json" -> "update"
      [] OTHER -> "abort"

\* lines 392-393 and 454-457: PermissionError is re-raised, any other
\* exception of the lookup is logged and the loop goes on
StatusHandler(resps) ==
    CASE get_order_status(resps) = "json" -> "update"
      [] get_order_status(resps) = "PermissionError" -> "abort"
      [] OTHER -> "continue"

\* BalanceHandler that catches RuntimeError and goes on with the fallback
BalanceHandlerFallback(resp) ==
    CASE get_balance(resp) = "PermissionError" -> "abort"
      [] OTHER -> "use"

\* line 308: get_balance's exceptions are not caught in run_lab
BalanceHandler(resp) ==
    CASE get_balance(resp) = "json" -> "use"
      [] OTHER -> "abort"

-----------------------------------------------------------------------------
(* Inputs *)

Pairs == {"TRX/USDT", "ETH/USDT"}

\* /api/symbols: one record per pair, every field present, bid > 0
Catalog ==
    { [symbol |-> "TRX/USDT", pricePrecision |-> 2, lotSize |-> 100,
       minQty |-> 3300, minNotional |-> 50, bid |-> 105],
      [symbol |-> "ETH/USDT", pricePrecision |-> 3, lotSize |-> 1000,
       minQty |-> 1000, minNotional |-> 50, bid |-> 50] }

Wanted == {0, 1000}             \* --usdt-amount
Balances ==                     \* the balance JSON of a successful response
    { [parsed |-> TRUE, avail |-> 0], [parsed |-> TRUE, avail |-> 100],
      [parsed |-> TRUE, avail |-> 2000], [parsed |-> FALSE, avail |-> 0] }

StatusResponses ==
    { [status |-> "FILLED", avgPrice |-> Num(1030000), filled |-> NoVal, nested |-> TRUE],
      [status |-> "open", avgPrice |-> NoVal, filled |-> NoVal, nested |-> FALSE],
      [status |-> "", avgPrice |-> NoVal, filled |-> Num(20000), nested |-> FALSE],
      [status |-> "pending", avgPrice |-> NoVal, filled |-> Num(1), nested |-> FALSE],
      [status |-> "filled", avgPrice |-> Str, filled |-> NoVal, nested |-> FALSE],
      [status |-> "PartiallyFilled", avgPrice |-> NoVal, filled |-> NoVal, nested |-> FALSE] }

NoReq == [body |-> [symbol |-> "", side |-> "", type |-> "", price |-> 0, quantity |-> 0],
          cand |-> 0, buy |-> 0, resp |-> NoResponse]

\* a buy record of an order that was closed by hand: the program reads it
\* from the document but never writes the status CLOSED itself
LegacyClosed ==
    [side |-> "buy", price |-> 1000000, quantity |-> 1000, pair |-> "TRX/USDT",
     order_id |-> 1, status |-> "CLOSED",
     created_raw_response |-> [shape |-> "top", id |-> 1],
     linked_sell_order |-> None, linked_buy_order |-> None,
     has_status_raw |-> FALSE, status_raw_response |-> NoRaw, created_at |-> 0]

\* what the balance request obtained
BalanceKind(resp, body) ==
    IF resp = NoResponse THEN "noresp"
    ELSE IF IsAuthDenied(resp) THEN "denied"
    ELSE IF ~resp_ok(resp) THEN "error"
    ELSE IF body.parsed THEN "ok" ELSE "unparsed"
NoRec == [symbol |-> "", pricePrecision |-> 0, lotSize |-> 1, minQty |-> 0,
          minNotional |-> 0, bid |-> 0]

BuyCount(s) == Cardinality({i \in DOMAIN s : s[i].side = "buy"})

-----------------------------------------------------------------------------
(* try_request *)

NoAuth == ""                    \* the variant that carries no credential

\* lines 44-51: the header variants in the order they are tried; key is the
\* truth value of api_key
headers_variants(key) ==
    IF key THEN <<"X-API-KEY", "Authorization", "api_key", "Api-Key", NoAuth>>
           ELSE <<NoAuth>>

\* lines 54-61: the methods try_request sends; any other raises ValueError
Methods == {"GET", "POST", "DELETE", "PUT"}
Supported(method) == method \in {"GET", "POST", "DELETE"}

\* AfterAttempt that goes on to the next variant on a 401/403 as well
AfterAttemptSkipDenied(out) ==
    IF out = NoResponse \/ IsAuthDenied(out) THEN "continue" ELSE "return"

\* lines 62-66: a RequestException moves on to the next variant, a response
\* of any status is returned
AfterAttempt(out) == IF out = NoResponse THEN "continue" ELSE "return"

\* no call of try_request is in progress
TrIdle(calls) ==
    [pc |-> "idle", key |-> FALSE, method |-> "", variants |-> <<>>, i |-> 0,
     log |-> <<>>, resp |-> NoResponse, used |-> 0, calls |-> calls]

-----------------------------------------------------------------------------
(* State machine *)

Init ==
    /\ file \in {<<>>, <<LegacyClosed>>}
    /\ torn = FALSE
    /\ saved = <<>>
    /\ pc = "idle"
    /\ run = 0
    /\ pair = ""
    /\ usdt = 0
    /\ use_usdt = 0
    /\ srec = NoRec
    /\ to_place = <<>>
    /\ ci = 0
    /\ idx = 0
    /\ sell = 0
    /\ nextId = Len(file) + 1
    /\ loaded = <<>>
    /\ placed = <<>>
    /\ attempts = 0
    /\ polled = {}
    /\ sellReq = [i \in DOMAIN file |-> 0]
    /\ denied = ""
    /\ deniedAt = 0
    /\ lastReq = NoReq
    /\ outcome = "none"
    /\ balance = "none"
    /\ lost = 0
    /\ wiped = FALSE
    /\ tr = TrIdle(0)

\* run_lab is entered and asks for the balance (lines 306-315); the clock
\* (run) is set by the action that uses this
EnterRun(resp, body, wanted, p) ==
    /\ pc = "idle"
    /\ pair' = p
    /\ usdt' = wanted
    /\ saved' = <<>>
    /\ srec' = NoRec
    /\ to_place' = <<>>
    /\ ci' = 0
    /\ idx' = 0
    /\ sell' = 0
    /\ loaded' = <<>>
    /\ placed' = <<>>
    /\ attempts' = 0
    /\ polled' = {}
    /\ deniedAt' = 0
    /\ lastReq' = NoReq
    /\ denied' = IF IsAuthDenied(resp) THEN "balance" ELSE ""
    /\ balance' = BalanceKind(resp, body)
    /\ LET use == Min(extract_available_usdt(body, wanted), wanted)
       IN  IF BalanceHandler(resp) = "abort"
           THEN /\ pc' = "idle"
                /\ use_usdt' = 0
                /\ outcome' = IF get_balance(resp) = "PermissionError"
                              THEN "denied" ELSE "fatal"
           ELSE IF use <= 0
           THEN /\ pc' = "idle"
                /\ use_usdt' = use
                /\ outcome' = "fatal"
           ELSE /\ pc' = "resolve"
                /\ use_usdt' = use
                /\ outcome' = "none"
    /\ UNCHANGED <<tr, file, torn, nextId, sellReq, lost, wiped>>

\* one of the first maxRuns invocations of run_lab
GetBalance(resp, body, wanted, p, maxRuns) ==
    /\ run < maxRuns
    /\ run' = run + 1
    /\ EnterRun(resp, body, wanted, p)

\* get_symbols (twice: run_lab and find_best_bid_price) fails: the run aborts
ResolveFail(r1, r2) ==
    /\ pc = "resolve"
    /\ ~resp_ok(r1) \/ ~resp_ok(r2)
    /\ pc' = "idle"
    /\ outcome' = "fatal"
    /\ denied' = IF IsAuthDenied(r1) \/ (resp_ok(r1) /\ IsAuthDenied(r2))
                 THEN "symbols" ELSE denied
    /\ UNCHANGED <<tr, file, torn, saved, run, pair, usdt, use_usdt, srec, to_place,
                   ci, idx, sell, nextId, loaded, placed, attempts, polled,
                   sellReq, deniedAt, lastReq, balance, lost, wiped>>

\* lines 317-349: the instrument record, its price, the candidates, the store
ResolveAndSize(rec, maxBuys) ==
    /\ pc = "resolve"
    /\ rec.symbol = pair
    /\ LET cands == Sizing(use_usdt, rec.bid, get_symbol_limits(rec))
           store == load_saved(file, torn)
       IN  /\ BuyCount(store) + Len(cands) <= maxBuys
           /\ srec' = rec
           /\ to_place' = cands
           /\ saved' = store
           /\ loaded' = store
           /\ sellReq' = IF torn THEN <<>> ELSE sellReq
           /\ wiped' = (wiped \/ torn)
           /\ IF cands = <<>>
              THEN pc' = "poll" /\ ci' = 0 /\ idx' = 1
              ELSE pc' = "place" /\ ci' = 1 /\ idx' = 0
    /\ UNCHANGED <<tr, file, torn, run, pair, usdt, use_usdt, sell, nextId, placed,
                   attempts, polled, denied, deniedAt, lastReq, outcome, balance, lost>>

\* lines 355-377: one iteration of the placement loop
PlaceBuy(resp, shape, tieUp, stepDown) ==
    /\ pc = "place"
    /\ LET c == to_place[ci]
           resp_json == [shape |-> shape, id |-> nextId]
           entry == BuyEntry(c, pair, resp_json, run, tieUp)
           h == BuyHandler(resp)
       IN  /\ lastReq' = [body |-> OrderBody(pair, "buy", c.price, 1, c.qnum,
                                             c.qden, srec, tieUp, stepDown),
                          cand |-> ci, buy |-> 0, resp |-> resp]
           /\ attempts' = attempts + 1
           /\ nextId' = IF resp_ok(resp) THEN nextId + 1 ELSE nextId
           /\ denied' = IF IsAuthDenied(resp) THEN "buy" ELSE denied
           /\ deniedAt' = IF IsAuthDenied(resp) /\ deniedAt = 0 THEN ci ELSE deniedAt
           /\ IF h = "record"
              THEN /\ saved' = Append(saved, entry)
                   /\ file' = save_saved(file, Append(saved, entry))
                   /\ torn' = FALSE
                   /\ sellReq' = Append(sellReq, 0)
                   /\ placed' = Append(placed, ci)
              ELSE UNCHANGED <<saved, file, torn, sellReq, placed>>
           /\ IF h = "abort"
              THEN pc' = "idle" /\ outcome' = "denied" /\ UNCHANGED <<ci, idx>>
              ELSE IF ci = Len(to_place)
              THEN pc' = "poll" /\ idx' = 1 /\ UNCHANGED <<ci, outcome>>
              ELSE pc' = "place" /\ ci' = ci + 1 /\ UNCHANGED <<idx, outcome>>
    /\ UNCHANGED <<tr, run, pair, usdt, use_usdt, srec, to_place, sell, loaded, polled,
                   balance, lost, wiped>>

\* lines 383-391: a record the loop passes over
SkipRecord ==
    /\ pc = "poll"
    /\ idx <= Len(saved)
    /\ SkipPoll(saved[idx])
    /\ idx' = idx + 1
    /\ UNCHANGED <<tr, file, torn, saved, pc, run, pair, usdt, use_usdt, srec, to_place,
                   ci, sell, nextId, loaded, placed, attempts, polled, sellReq,
                   denied, deniedAt, lastReq, outcome, balance, lost, wiped>>

\* lines 392-429 and 454-457: the status lookup of one record and its update
PollRecord(resps, st) ==
    /\ pc = "poll"
    /\ idx <= Len(saved)
    /\ ~SkipPoll(saved[idx])
    /\ polled' = polled \cup {idx}
    /\ denied' = IF get_order_status(resps) = "PermissionError" THEN "status" ELSE denied
    /\ LET h == StatusHandler(resps)
           old == saved[idx]
           entry == [old EXCEPT !.status = Normalize(StatusOf(st), FilledOf(st), old.quantity),
                                !.status_raw_response = st,
                                !.has_status_raw = TRUE]
           bought == BoughtPrice(AvgOf(st), entry)
       IN  CASE h = "abort" ->
                  /\ pc' = "idle" /\ outcome' = "denied"
                  /\ UNCHANGED <<saved, file, torn, idx, sell>>
             [] h = "continue" ->
                  /\ idx' = idx + 1
                  /\ UNCHANGED <<saved, file, torn, pc, outcome, sell>>
             [] OTHER ->
                  /\ saved' = [saved EXCEPT ![idx] = entry]
                  /\ file' = save_saved(file, [saved EXCEPT ![idx] = entry])
                  /\ torn' = FALSE
                  /\ IF WantsSell(entry) /\ bought.ok
                     THEN pc' = "sell" /\ sell' = bought.v /\ UNCHANGED <<idx, outcome>>
                     ELSE idx' = idx + 1 /\ UNCHANGED <<pc, sell, outcome>>
    /\ UNCHANGED <<tr, run, pair, usdt, use_usdt, srec, to_place, ci, nextId, loaded,
                   placed, attempts, sellReq, deniedAt, lastReq, balance, lost, wiped>>

\* lines 427-452: the sell order for the buy at idx that has just filled
PlaceSell(resp, shape, tieUp, stepDown) ==
    /\ pc = "sell"
    /\ LET entry == saved[idx]
           resp_json == [shape |-> shape, id |-> nextId]
           sell_entry == SellEntry(sell, entry, pair, resp_json, run, tieUp)
           h == SellHandler(resp)
       IN  /\ lastReq' = [body |-> OrderBody(pair, "sell", sell * 102, 100,
                                             entry.quantity, 1, srec, tieUp, stepDown),
                          cand |-> 0, buy |-> idx, resp |-> resp]
           /\ nextId' = IF resp_ok(resp) THEN nextId + 1 ELSE nextId
           /\ denied' = IF IsAuthDenied(resp) THEN "sell" ELSE denied
           /\ IF h = "record"
              THEN /\ saved' = Append([saved EXCEPT ![idx].linked_sell_order =
                                                      sell_entry.order_id], sell_entry)
                   /\ file' = save_saved(file, saved')
                   /\ torn' = FALSE
                   /\ sellReq' = Append([sellReq EXCEPT ![idx] = @ + 1], 0)
              ELSE /\ sellReq' = [sellReq EXCEPT ![idx] = @ + 1]
                   /\ UNCHANGED <<saved, file, torn>>
           /\ IF h = "abort"
              THEN pc' = "idle" /\ outcome' = "denied" /\ UNCHANGED idx
              ELSE pc' = "poll" /\ idx' = idx + 1 /\ UNCHANGED outcome
    /\ sell' = 0
    /\ UNCHANGED <<tr, run, pair, usdt, use_usdt, srec, to_place, ci, loaded, placed,
                   attempts, polled, deniedAt, balance, lost, wiped>>

\* line 459-460: the loop is over, run_lab returns
Finish ==
    /\ pc = "poll"
    /\ idx > Len(saved)
    /\ pc' = "idle"
    /\ outcome' = "done"
    /\ UNCHANGED <<tr, file, torn, saved, run, pair, usdt, use_usdt, srec, to_place, ci,
                   idx, sell, nextId, loaded, placed, attempts, polled, sellReq,
                   denied, deniedAt, lastReq, balance, lost, wiped>>

\* the shapes of an accepted placement's JSON the exchange answers with
Shapes == {"top", "other"}
Paths == [1..3 -> {NoResponse, 200, 403, 500}]

Next ==
    \/ \E resp \in Responses, body \in Balances, wanted \in Wanted, p \in Pairs :
          GetBalance(resp, body, wanted, p, MaxRuns)
    \/ \E r1, r2 \in Responses : ResolveFail(r1, r2)
    \/ \E rec \in Catalog : ResolveAndSize(rec, MaxBuys)
    \/ \E resp \in Responses, shape \in Shapes, tieUp, stepDown \in BOOLEAN :
          PlaceBuy(resp, shape, tieUp, stepDown)
    \/ SkipRecord
    \/ \E resps \in Paths :
          \E st \in (IF StatusHandler(resps) = "update" THEN StatusResponses ELSE {NoRaw}) :
             PollRecord(resps, st)
    \/ \E resp \in Responses, shape \in Shapes, tieUp, stepDown \in BOOLEAN :
          PlaceSell(resp, shape, tieUp, stepDown)
    \/ Finish

Spec == Init /\ [][Next]_vars

-----------------------------------------------------------------------------
(* The sizing and placement steps of one run over a range of instruments   *)
(* and funds                                                               *)

InstrumentsWide ==
    [symbol : {"TRX/USDT"}, pricePrecision : {2, 4}, lotSize : {10, 1000},
     minQty : {10, 500, 3300}, minNotional : {50, 400}, bid : {50, 105, 333}]

BalancesWide ==
    { [parsed |-> TRUE, avail |-> 30], [parsed |-> TRUE, avail |-> 100],
      [parsed |-> TRUE, avail |-> 450], [parsed |-> FALSE, avail |-> 0] }

NextPlace ==
    \/ \E resp \in Responses, body \in BalancesWide, wanted \in Wanted :
          GetBalance(resp, body, wanted, "TRX/USDT", MaxPlaceRuns)
    \/ \E r1, r2 \in Responses : ResolveFail(r1, r2)
    \/ \E rec \in InstrumentsWide : ResolveAndSize(rec, Len(deltas) + 1)
    \/ \E resp \in Responses, shape \in Shapes, tieUp, stepDown \in BOOLEAN :
          PlaceBuy(resp, shape, tieUp, stepDown)

SpecPlace == Init /\ [][NextPlace]_vars

-----------------------------------------------------------------------------
(* Interruption of the process (Ctrl-C, kill, power loss)                  *)

\* a status lookup is due for the record at idx
PollDue == pc = "poll" /\ idx <= Len(saved) /\ ~SkipPoll(saved[idx])

\* The process stops inside the step it is at.  accepted: the step's order
\* placement reached the exchange and was accepted, and the process stopped
\* before save_saved completed.  tear: it stopped inside save_saved, after
\* open(filename, "w") truncated the document and before json.dump finished.
Interrupt(accepted, tear) ==
    /\ pc # "idle"
    /\ accepted => pc \in {"place", "sell"}
    /\ tear => (accepted \/ PollDue)
    /\ pc' = "idle"
    /\ outcome' = "crash"
    /\ nextId' = IF accepted THEN nextId + 1 ELSE nextId
    /\ lost' = IF accepted THEN lost + 1 ELSE lost
    /\ torn' = (torn \/ tear)
    /\ UNCHANGED <<tr, file, saved, run, pair, usdt, use_usdt, srec, to_place, ci, idx,
                   sell, loaded, placed, attempts, polled, sellReq, denied,
                   deniedAt, lastReq, balance, wiped>>

NextCrash ==
    \/ Next
    \/ \E accepted, tear \in BOOLEAN : Interrupt(accepted, tear)

SpecCrash == Init /\ [][NextCrash]_vars

-----------------------------------------------------------------------------
(* The tool re-invoked for ever, for the properties of what eventually       *)
(* happens.  The exchange answers 200 or 500, every accepted placement       *)
(* carries its identifier, and a status lookup reports the order filled or   *)
(* open.                                                                     *)

MaxLiveBuys == 1

\* an invocation of run_lab after the clock of the model has reached MaxRuns
RunAgain(resp, body, wanted, p) ==
    /\ run = MaxRuns
    /\ run' = run
    /\ EnterRun(resp, body, wanted, p)

LiveResponses == {200, 500}
LiveBalances == {[parsed |-> TRUE, avail |-> 100]}
LiveWanted == {1000}
LivePaths == {[i \in 1..3 |-> 200], [i \in 1..3 |-> 500]}
LiveStatusResponses ==
    { [status |-> "FILLED", avgPrice |-> Num(1030000), filled |-> NoVal, nested |-> TRUE],
      [status |-> "open", avgPrice |-> NoVal, filled |-> NoVal, nested |-> FALSE] }

\* a whole step of run_lab in which every request of the step succeeds
LiveBalanceOk == \E p \in Pairs :
    \/ GetBalance(200, [parsed |-> TRUE, avail |-> 100], 1000, p, MaxRuns)
    \/ RunAgain(200, [parsed |-> TRUE, avail |-> 100], 1000, p)
LiveResolve == \E rec \in Catalog : ResolveAndSize(rec, MaxLiveBuys)
LivePollOk == \E st \in LiveStatusResponses : PollRecord([i \in 1..3 |-> 200], st)
LiveSellOk == PlaceSell(200, "top", TRUE, FALSE)

NextLive ==
    \/ \E resp \in LiveResponses, body \in LiveBalances, wanted \in LiveWanted, p \in Pairs :
          GetBalance(resp, body, wanted, p, MaxRuns)
    \/ \E resp \in LiveResponses, body \in LiveBalances, wanted \in LiveWanted, p \in Pairs :
          RunAgain(resp, body, wanted, p)
    \/ \E r1, r2 \in LiveResponses : ResolveFail(r1, r2)
    \/ \E rec \in Catalog : ResolveAndSize(rec, MaxLiveBuys)
    \/ \E resp \in LiveResponses : PlaceBuy(resp, "top", TRUE, FALSE)
    \/ SkipRecord
    \/ \E resps \in LivePaths :
          \E st \in (IF StatusHandler(resps) = "update" THEN LiveStatusResponses ELSE {NoRaw}) :
             PollRecord(resps, st)
    \/ \E resp \in LiveResponses : PlaceSell(resp, "top", TRUE, FALSE)
    \/ Finish

\* the tool is re-invoked again and again and no run hangs (weak fairness of
\* the step); whichever request is attempted again and again eventually
\* succeeds (strong fairness of the successful steps)
SpecLive ==
    /\ Init /\ [][NextLive]_vars
    /\ WF_vars(NextLive)
    /\ SF_vars(LiveBalanceOk)
    /\ SF_vars(LiveResolve)
    /\ SF_vars(LivePollOk)
    /\ SF_vars(LiveSellOk)

-----------------------------------------------------------------------------
(* One call of try_request, attempt by attempt *)

\* lines 41-51: the call builds its list of header variants
TryCall(method, key) ==
    /\ tr.pc = "idle"
    /\ tr.calls < MaxCalls
    /\ tr' = [TrIdle(tr.calls + 1) EXCEPT !.pc = "loop", !.key = key,
                                          !.method = method,
                                          !.variants = headers_variants(key),
                                          !.i = 1]
    /\ UNCHANGED labVars

\* lines 53-67: one pass of the for loop; out is NoResponse when requests
\* raised RequestException, else the status code of the response
TryAttempt(out) ==
    /\ tr.pc = "loop"
    /\ tr.i <= Len(tr.variants)
    /\ LET log == Append(tr.log, [name |-> tr.variants[tr.i], out |-> out])
       IN  IF ~Supported(tr.method)
           THEN tr' = [tr EXCEPT !.pc = "raised"]
           ELSE IF AfterAttempt(out) = "continue"
           THEN tr' = [tr EXCEPT !.log = log, !.i = tr.i + 1]
           ELSE tr' = [tr EXCEPT !.log = log, !.pc = "returned", !.resp = out,
                                 !.used = tr.i]
    /\ UNCHANGED labVars

\* line 68: the list is exhausted, try_request returns (None, {})
TryExhausted ==
    /\ tr.pc = "loop"
    /\ tr.i > Len(tr.variants)
    /\ tr' = [tr EXCEPT !.pc = "returned", !.resp = NoResponse, !.used = 0]
    /\ UNCHANGED labVars

\* the caller has the result (or the ValueError) and may call again
TryReturn ==
    /\ tr.pc \in {"returned", "raised"}
    /\ tr' = TrIdle(tr.calls)
    /\ UNCHANGED labVars

TryOutcomes == {NoResponse, 200, 401, 500}

NextTry ==
    \/ \E method \in Methods, key \in BOOLEAN : TryCall(method, key)
    \/ \E out \in TryOutcomes : TryAttempt(out)
    \/ TryExhausted
    \/ TryReturn

SpecTry == Init /\ [][NextTry]_vars

-----------------------------------------------------------------------------
(* Properties *)

IsBuy(r) == r.side = "buy"
IsSell(r) == r.side = "sell"

\* C1: over any sequence of runs, a buy record that has become FILLED has had
\* exactly one sell placement request issued for it when the run that saw it
\* fill is over; a linked_sell_order that is set is never changed; and no two
\* sell records name the same buy in linked_buy_order.
C1_SellExactlyOnce ==
    [][ /\ (pc' = "idle" /\ outcome' = "done") =>
              \A i \in DOMAIN file' :
                 (IsBuy(file'[i]) /\ file'[i].status = "FILLED") => sellReq'[i] = 1
        /\ \A i \in DOMAIN sellReq' : sellReq'[i] <= 1
        /\ \A i \in DOMAIN file :
              (i \in DOMAIN file' /\ file[i].linked_sell_order # None) =>
                 file'[i].linked_sell_order = file[i].linked_sell_order
        /\ \A i, j \in DOMAIN file' :
              (/\ IsSell(file'[i]) /\ IsSell(file'[j])
               /\ file'[i].linked_buy_order # None
               /\ file'[i].linked_buy_order = file'[j].linked_buy_order) => i = j
      ]_vars

\* the part of C1 that does not depend on the sell being attempted
C1_SellAtMostOnce ==
    [][ /\ \A i \in DOMAIN sellReq' : sellReq'[i] <= 1
        /\ \A i \in DOMAIN file :
              (i \in DOMAIN file' /\ file[i].linked_sell_order # None) =>
                 file'[i].linked_sell_order = file[i].linked_sell_order
        /\ \A i, j \in DOMAIN file' :
              (/\ IsSell(file'[i]) /\ IsSell(file'[j])
               /\ file'[i].linked_buy_order # None
               /\ file'[i].linked_buy_order = file'[j].linked_buy_order) => i = j
      ]_vars

\* C2: a buy record that is FILLED or CLOSED when the run loads the store is
\* not looked up, has no order placed for it and keeps every field, in memory
\* and in the document, whatever the exchange answers for other records; and
\* no sell is requested for a record whose linked_sell_order was already set.
C2_FilledClosedUntouched ==
    \A i \in DOMAIN loaded :
       /\ (IsBuy(loaded[i]) /\ loaded[i].status \in {"FILLED", "CLOSED"}) =>
             /\ i \notin polled
             /\ lastReq.buy # i
             /\ i \in DOMAIN saved /\ saved[i] = loaded[i]
             /\ i \in DOMAIN file /\ file[i] = loaded[i]
       /\ loaded[i].linked_sell_order # None => lastReq.buy # i

\* a run has passed over a FILLED and over a CLOSED record of the loaded store
C2_Witness ==
    /\ pc = "poll"
    /\ idx > Len(loaded)
    /\ \E i \in DOMAIN loaded : IsBuy(loaded[i]) /\ loaded[i].status = "FILLED"
    /\ \E i \in DOMAIN loaded : IsBuy(loaded[i]) /\ loaded[i].status = "CLOSED"

\* C3: when the placement of candidate k is answered 401/403 the run is over:
\* k placement requests were issued and no more, no status lookup was issued,
\* and the document is the loaded store followed by one NEW buy record for
\* each earlier candidate whose placement succeeded.
C3_BuyDeniedAborts ==
    deniedAt # 0 =>
       /\ pc = "idle" /\ outcome = "denied"
       /\ attempts = deniedAt
       /\ polled = {} /\ idx = 0
       /\ ~torn
       /\ Len(file) = Len(loaded) + Len(placed)
       /\ \A i \in DOMAIN loaded : file[i] = loaded[i]
       /\ \A j \in DOMAIN placed :
             LET r == file[Len(loaded) + j]
             IN  /\ placed[j] < deniedAt
                 /\ IsBuy(r) /\ r.status = "NEW"
                 /\ r.price = to_place[placed[j]].price
                 /\ r.created_raw_response.id < nextId

\* the second candidate was denied after the first was placed
C3_Witness == deniedAt = 2 /\ placed = <<1>> /\ Len(file) = Len(loaded) + 1

\* C4: whenever a request of the run was answered 401/403 the run is over
\* (it aborted and issues no further network call).
C4_AuthDeniedAlwaysFatal ==
    denied # "" => (pc = "idle" /\ outcome \in {"denied", "fatal"})

C6_BuyFailureTolerated ==
    [][ /\ (/\ pc = "place" /\ attempts' = attempts + 1
            /\ ~resp_ok(lastReq'.resp) /\ ~IsAuthDenied(lastReq'.resp)) =>
              /\ saved' = saved /\ file' = file /\ placed' = placed
              /\ IF ci < Len(to_place)
                 THEN pc' = "place" /\ ci' = ci + 1
                 ELSE pc' = "poll" /\ idx' = 1
        /\ pc' \in {"poll", "sell"} => attempts' = Len(to_place')
      ]_vars

\* the first placement failed, the second was recorded, a status was looked up
C6_Witness ==
    /\ pc = "poll" /\ attempts = 2 /\ placed = <<2>> /\ polled # {}
    /\ Len(saved) = Len(loaded) + 1

\* the identifiers of the orders the exchange accepted, and those among them
\* the document has no record of
Accepted == 1 .. (nextId - 1)
Recorded == {file[i].created_raw_response.id : i \in DOMAIN file}
Missing == Accepted \ Recorded

\* C7 as stated: after an interruption the document holds a record for every
\* order the exchange accepted and none for an order it did not accept.
C7_CrashConsistent ==
    (pc = "idle" /\ outcome = "crash") =>
       (~torn /\ Missing = {} /\ Recorded \subseteq Accepted)

\* what does hold under interruption (not C7 itself): the document never holds
\* a record for an order the exchange did not accept, nor two records for one
\* order; as long as no write was interrupted half way, the accepted orders
\* without a record are exactly those accepted right before an interruption,
\* at most one for each run.
C7_CrashLosesOnlyInterrupted ==
    /\ Recorded \subseteq Accepted
    /\ \A i, j \in DOMAIN file :
          file[i].created_raw_response.id = file[j].created_raw_response.id => i = j
    /\ lost <= run
    /\ (~torn /\ ~wiped) => Cardinality(Missing) = lost

\* C7's case: a run was interrupted after the exchange accepted an order and
\* before the write; the document is readable and holds the earlier records
C7_Witness ==
    /\ pc = "idle" /\ outcome = "crash" /\ lost = 1 /\ ~torn /\ ~wiped
    /\ file # <<>> /\ Cardinality(Missing) = 1

\* the sizing step has run
Sized == srec # NoRec

\* C8 as stated: sizing yields exactly three candidates (0.98, 0.95, 0.92,
\* each funded with U/3) or, when U/3 < minNotional, exactly one (0.98,
\* funded with U).
C8_ThreeOrOneCandidates ==
    Sized =>
       IF BelowNotional(use_usdt, 3, get_symbol_limits(srec))
       THEN /\ Len(to_place) = 1
            /\ to_place[1].d = 98 /\ to_place[1].k = 1
       ELSE /\ Len(to_place) = 3
            /\ \A j \in 1..3 : to_place[j].d = deltas[j] /\ to_place[j].k = 3

\* C8: sizing yields, in the order 0.98, 0.95, 0.92 (or 0.98 alone, funded
\* with U, when U/3 < minNotional), exactly the tiers whose raw quantity is at
\* least minQty and whose funds are at least minNotional: at most three (at
\* most one) candidates, possibly none, their funds summing to at most U.
C8_CandidatesAreTiersPassingFilters ==
    Sized =>
       LET lim == get_symbol_limits(srec)
           k == IF 3 * lim.minNotional > use_usdt THEN 1 ELSE 3
           ds == IF k = 1 THEN {98} ELSE {98, 95, 92}
           fits(d) == /\ use_usdt * Percent * QtyUnit >= lim.minQty * k * srec.bid * d
                      /\ use_usdt >= k * lim.minNotional
       IN  /\ Len(to_place) <= k
           /\ Len(to_place) * use_usdt <= k * use_usdt
           /\ \A j \in DOMAIN to_place :
                 /\ to_place[j].k = k /\ to_place[j].d \in ds /\ fits(to_place[j].d)
                 /\ to_place[j].price = srec.bid * to_place[j].d * 100
                 /\ j > 1 => to_place[j].d < to_place[j - 1].d
           /\ \A d \in ds : fits(d) => \E j \in DOMAIN to_place : to_place[j].d = d

\* sizing has produced two candidates out of three tiers
C8_Witness == Sized /\ Len(to_place) = 2 /\ to_place[1].k = 3

\* the body of the last buy request
Submitted == lastReq.cand # 0

\* C9 as stated: every buy request submitted has a quantity (floored to
\* lotSize) that is positive and at least minQty, and a notional (submitted
\* price times submitted quantity) of at least minNotional.
C9_SubmittedMeetsMinimums ==
    Submitted =>
       LET p == lastReq.body.price
           q == lastReq.body.quantity
       IN  /\ q > 0
           /\ q >= srec.minQty
           /\ (p \div 100) * (q \div 10) >= srec.minNotional * 10000

\* C10 as stated: every buy request submitted has a quantity that is a
\* multiple of lotSize not above the requested quantity, and its price
\* (rounded to pricePrecision) times its quantity is not above the funds of
\* its tier.
C10_NeverOverspends ==
    Submitted =>
       LET p == lastReq.body.price
           q == lastReq.body.quantity
           c == to_place[lastReq.cand]
       IN  /\ q % srec.lotSize = 0
           /\ q * c.qden <= c.qnum
           /\ (p \div 100) * (q \div 10) * c.k <= use_usdt * 10000

-----------------------------------------------------------------------------
(* The sell placed for a buy that has just filled *)

\* the last placement request was the sell for the buy record at lastReq.buy
Sold == lastReq.buy # 0
SoldBuy == saved[lastReq.buy]

\* the price the sell is derived from: the average price of the status
\* response the record keeps, the record's own price when none is reported
SoldBase ==
    IF Truthy(AvgOf(SoldBuy.status_raw_response))
    THEN AvgOf(SoldBuy.status_raw_response).v
    ELSE SoldBuy.price

\* the sell records of the store that name the buy of the last sell request
SoldRecords ==
    {j \in DOMAIN saved : IsSell(saved[j]) /\ saved[j].linked_buy_order = SoldBuy.order_id}

-----------------------------------------------------------------------------
(* Linkage of buy and sell records *)

\* the buy records whose order_id a sell record names
BuysOf(j) == {i \in DOMAIN file : IsBuy(file[i]) /\ file[i].order_id = file[j].linked_buy_order}

\* C12 as stated: every sell record of the document names the order_id of a
\* buy record whose linked_sell_order is set and identifies that sell record.
C12_LinkedBothWays ==
    \A j \in DOMAIN file :
       IsSell(file[j]) =>
          \E i \in BuysOf(j) :
             /\ file[i].linked_sell_order # None
             /\ file[i].linked_sell_order = file[j].order_id

\* what does hold of the linkage (not C12 itself): every sell record of the
\* document names, in linked_buy_order, the
\* order_id of exactly one buy record, which precedes it and is FILLED, and
\* that buy's linked_sell_order equals the sell record's order_id: both are
\* null when no identifier could be extracted from the sell response.  A buy
\* whose linked_sell_order is set has exactly one sell record of that
\* order_id, which names it.
C12_LinkedAsExtracted ==
    /\ \A j \in DOMAIN file :
          IsSell(file[j]) =>
             /\ file[j].linked_buy_order # None
             /\ Cardinality(BuysOf(j)) = 1
             /\ \A i \in BuysOf(j) :
                   /\ i < j
                   /\ file[i].status = "FILLED"
                   /\ file[i].linked_sell_order = file[j].order_id
                   /\ file[j].order_id = extract_order_id(file[j].created_raw_response)
    /\ \A i \in DOMAIN file :
          (IsBuy(file[i]) /\ file[i].linked_sell_order # None) =>
             Cardinality({j \in DOMAIN file :
                             /\ IsSell(file[j])
                             /\ file[j].order_id = file[i].linked_sell_order
                             /\ file[j].linked_buy_order = file[i].order_id}) = 1

\* the document holds a sell whose identifier was extracted and a sell whose
\* identifier could not be extracted
C12_Witness ==
    /\ \E j \in DOMAIN file : IsSell(file[j]) /\ file[j].order_id # None
    /\ \E j \in DOMAIN file : IsSell(file[j]) /\ file[j].order_id = None


-----------------------------------------------------------------------------
(* Take-profit generation over repeated runs *)

LiveIdx == 1 .. (2 * MaxLiveBuys + 1)

\* C13 as stated: with the tool re-invoked again and again and sell
\* placements eventually accepted, every buy record that is FILLED eventually
\* has linked_sell_order set.
C13_FilledEventuallySold ==
    \A i \in LiveIdx :
       [](  (i \in DOMAIN file /\ IsBuy(file[i]) /\ file[i].status = "FILLED")
          => <>(i \in DOMAIN file /\ file[i].linked_sell_order # None))

\* what does hold (not C13 itself): a buy that is FILLED and unlinked when a
\* run has ended has no sell requested for it in any later run.
C13_FailedSellNeverRetried ==
    [][ \A i \in DOMAIN loaded' :
           (IsBuy(loaded'[i]) /\ loaded'[i].status = "FILLED") =>
              (i \in DOMAIN sellReq /\ sellReq'[i] = sellReq[i])
      ]_vars

\* C13's case: a run is over, the buy is FILLED, its one sell request failed
C13_Witness ==
    /\ pc = "idle" /\ outcome = "done"
    /\ \E i \in DOMAIN file :
          /\ IsBuy(file[i]) /\ file[i].status = "FILLED"
          /\ file[i].linked_sell_order = None /\ sellReq[i] = 1


-----------------------------------------------------------------------------
(* The document and the store in memory *)

\* run_lab is about to send a request that follows the loading of the store
NetworkCallDue == pc \in {"place", "sell"} \/ PollDue

\* C14: whenever run_lab is about to place a buy, look up a status or place a
\* sell, the document, as load_saved reads it, equals the store in memory:
\* every append, status update and linkage was written before the request.
C14_FlushedBeforeNetwork ==
    NetworkCallDue => load_saved(file, torn) = saved

\* a sell is about to be requested right after a status update was stored
C14_Witness ==
    /\ pc = "sell" /\ saved # loaded /\ Len(saved) = Len(loaded) + Len(placed)
    /\ saved[idx].status = "FILLED"


-----------------------------------------------------------------------------
(* The stored status *)

StatusEnum == {"NEW", "OPEN", "PARTIALLY_FILLED", "FILLED", "CLOSED"}

\* C15: the status of every record of the document is one of NEW, OPEN,
\* PARTIALLY_FILLED, FILLED, CLOSED, whatever the status responses were.
C15_StatusInEnum ==
    \A i \in DOMAIN file : file[i].status \in StatusEnum

\* a polled buy record is stored with the upper-cased upstream spelling
C15_Witness ==
    \E i \in DOMAIN file :
        /\ IsBuy(file[i]) /\ file[i].has_status_raw
        /\ file[i].status = "PARTIALLYFILLED"

\* C16: over every step a buy record that is OPEN or PARTIALLY_FILLED does not
\* return to NEW, and a buy record that is FILLED stays FILLED.
C16_StatusOnlyForward ==
    [][\A i \in DOMAIN file :
          (IsBuy(file[i]) /\ i \in DOMAIN file') =>
             /\ file[i].status \in {"OPEN", "PARTIALLY_FILLED"}
                    => file'[i].status # "NEW"
             /\ file[i].status = "FILLED" => file'[i].status = "FILLED"]_vars

\* what does hold of the order of the statuses (not C16 itself): a FILLED buy
\* record keeps its status, because the pass skips it
C16_FilledStaysFilled ==
    [][\A i \in DOMAIN file :
          (IsBuy(file[i]) /\ i \in DOMAIN file' /\ file[i].status = "FILLED")
             => file'[i].status = "FILLED"]_vars

\* a record loaded as OPEN was polled in this run and is stored as NEW
C16_Witness ==
    \E i \in DOMAIN loaded :
        /\ IsBuy(loaded[i]) /\ loaded[i].status = "OPEN"
        /\ i \in DOMAIN file /\ file[i].status = "NEW" /\ i \in polled


-----------------------------------------------------------------------------
(* A status lookup that fails *)

\* the status-check pass of the run came to its end
PassDone == pc = "idle" /\ outcome = "done"

\* the records the pass had to poll: buys with an order_id that were not
\* FILLED or CLOSED when the pass began
ToPoll ==
    {i \in DOMAIN saved :
        /\ IsBuy(saved[i]) /\ saved[i].order_id # None
        /\ i <= Len(loaded) => loaded[i].status \notin {"FILLED", "CLOSED"}}

\* C17: a status lookup that fails on all three paths without a 401/403
\* leaves the store and the document as they were and moves on to the next
\* record; when the pass ends every record it had to poll has been polled.
C17_FailedLookupIsolated ==
    /\ [][\A resps \in Paths :
            (get_order_status(resps) = "RuntimeError" /\ PollRecord(resps, NoRaw))
               => /\ saved' = saved /\ file' = file /\ torn' = torn
                  /\ pc' = "poll" /\ idx' = idx + 1]_vars
    /\ [](PassDone => ToPoll \subseteq polled)

\* the lookup of one record failed (it was polled and has no stored status
\* response) and a later record was polled with success in the same pass
C17_Witness ==
    \E i, j \in polled :
        /\ i < j /\ j \in DOMAIN file
        /\ ~file[i].has_status_raw /\ file[i].status = "NEW"
        /\ file[j].has_status_raw


-----------------------------------------------------------------------------
(* try_request: the first response wins *)

\* the order of the variants the claim gives
VariantOrder(key) ==
    IF key THEN <<"X-API-KEY", "Authorization", "api_key", "Api-Key", "">>
           ELSE <<"">>

\* every attempt of the call so far failed at the transport level
AllTransportFailed == \A k \in DOMAIN tr.log : tr.log[k].out = NoResponse

\* C18: the attempts of a call follow the fixed order of the variants (only
\* the variant without credential when no key is given), each variant at most
\* once and only after every earlier one failed at the transport level; the
\* call returns the response of the first variant that got one, whatever its
\* status, and returns no response only when every variant failed.
C18_FirstResponderWins ==
    /\ Len(tr.log) <= Len(VariantOrder(tr.key))
    /\ \A k \in DOMAIN tr.log :
          /\ tr.log[k].name = VariantOrder(tr.key)[k]
          /\ k < Len(tr.log) => tr.log[k].out = NoResponse
    /\ tr.pc = "loop" => AllTransportFailed
    /\ (tr.pc = "returned" /\ tr.resp # NoResponse) =>
          /\ tr.log # <<>> /\ tr.used = Len(tr.log)
          /\ tr.log[Len(tr.log)].out = tr.resp
    /\ (tr.pc = "returned" /\ tr.resp = NoResponse) =>
          /\ Len(tr.log) = Len(VariantOrder(tr.key))
          /\ AllTransportFailed

\* with a key given, the first two variants failed at the transport level and
\* the third was answered 401, which is what the call returned
C18_Witness ==
    /\ tr.pc = "returned" /\ tr.key /\ Len(tr.log) = 3
    /\ tr.resp = 401 /\ tr.log[3].name = "api_key"


-----------------------------------------------------------------------------
(* What a record stores of its order *)

\* the last placement request was a buy that the exchange accepted; its
\* record is the last of the buys appended in this run
BuyAccepted ==
    /\ lastReq.cand # 0 /\ lastReq.buy = 0
    /\ BuyHandler(lastReq.resp) = "record"
BuyRecord == saved[Len(loaded) + Len(placed)]

\* C19: the record of an accepted order stores the price and the quantity of
\* the request body: the price rounded to pricePrecision and the quantity
\* floored to a multiple of lotSize.
C19_StoredAsSent ==
    /\ BuyAccepted =>
          /\ BuyRecord.price = lastReq.body.price
          /\ BuyRecord.quantity = lastReq.body.quantity
    /\ (Sold /\ resp_ok(lastReq.resp)) =>
          \E j \in SoldRecords :
             /\ saved[j].price = lastReq.body.price
             /\ saved[j].quantity = lastReq.body.quantity

\* what does hold of the stored values (not C19 itself): the request body is
\* the stored price rounded to pricePrecision and the stored quantity floored
\* to a multiple of lotSize, up to the rounding of the stored value itself
C19_StoredIsCandidate ==
    BuyAccepted =>
       LET step == PriceUnit \div Pow10(srec.pricePrecision)
       IN  /\ BuyRecord.price = to_place[lastReq.cand].price
           /\ 2 * (lastReq.body.price - BuyRecord.price) <= step
           /\ 2 * (BuyRecord.price - lastReq.body.price) <= step
           /\ lastReq.body.quantity <= BuyRecord.quantity + 1
           /\ BuyRecord.quantity - lastReq.body.quantity <= srec.lotSize

\* an accepted buy whose record stores another price than the one requested
C19_Witness ==
    /\ BuyAccepted /\ IsBuy(BuyRecord)
    /\ BuyRecord.order_id # None
    /\ BuyRecord.price # lastReq.body.price


-----------------------------------------------------------------------------
(* The status-check pass *)

\* the store when the pass began: the loaded records and this run's buys
PassStart == Len(loaded) + Len(placed)

\* the buy records that were neither FILLED nor CLOSED when the pass began
OpenAtStart ==
    {i \in 1 .. PassStart :
        /\ IsBuy(saved[i])
        /\ i <= Len(loaded) => loaded[i].status \notin {"FILLED", "CLOSED"}}

InPass == pc \in {"poll", "sell"}

\* what is left of the pass: it decreases with every step of the pass
PassLeft(s, i, at) ==
    2 * Cardinality(i .. PassStart) + (Len(s) + 1 - i)
      + (IF at = "sell" THEN 0 ELSE 1)

\* C20: the pass of one run is a single pass that ends: a lookup is issued
\* only for a buy record that was in the store when the pass began and was
\* not yet polled in this run, never for a sell record appended during the
\* pass; the sell records appended in the run are no more than the buy
\* records that were neither FILLED nor CLOSED when the pass began; every
\* step of the pass brings its end nearer.
C20_SinglePass ==
    /\ [](PollDue => /\ idx \notin polled
                     /\ idx <= PassStart
                     /\ IsBuy(saved[idx]))
    /\ [](InPass => /\ idx <= Len(saved) + 1
                    /\ polled \subseteq OpenAtStart
                    /\ Len(saved) - PassStart <= Cardinality(polled)
                    /\ Len(saved) - PassStart <= Cardinality(OpenAtStart)
                    /\ \A j \in (PassStart + 1) .. Len(saved) : IsSell(saved[j]))
    /\ [][(InPass /\ InPass') => /\ PassLeft(saved', idx', pc') < PassLeft(saved, idx, pc)
                                /\ PassLeft(saved', idx', pc') >= 0]_vars

\* the pass ended after it had appended a sell record to the store it was
\* iterating and had polled two buy records
C20_Witness ==
    /\ PassDone /\ Len(saved) > PassStart
    /\ Cardinality(polled) = 2


-----------------------------------------------------------------------------
(* The pair of a sell *)

\* C21: every sell record of the document has the pair of the buy record it
\* names, and the sell for a buy is requested under the buy's pair with the
\* instrument record of that pair, also for a buy an earlier run placed for
\* another pair than the current run's.
C21_SellUnderBuysPair ==
    /\ \A j \in DOMAIN file :
          IsSell(file[j]) => \A i \in BuysOf(j) : file[j].pair = file[i].pair
    /\ Sold => /\ lastReq.body.symbol = SoldBuy.pair
               /\ srec.symbol = SoldBuy.pair

\* what does hold of the pair of a sell (not C21 itself): the sell is
\* requested and recorded under the pair given to the run that places it
C21_SellUnderRunsPair ==
    Sold => /\ lastReq.body.symbol = pair /\ srec.symbol = pair
            /\ \A j \in SoldRecords : j > Len(loaded) => saved[j].pair = pair

\* a buy loaded from the document under another pair than the run's filled
\* and its sell was accepted and recorded
C21_Witness ==
    /\ Sold /\ resp_ok(lastReq.resp)
    /\ lastReq.buy <= Len(loaded) /\ SoldBuy.pair # pair
    /\ \E j \in SoldRecords : j > Len(loaded) /\ saved[j].pair = pair


-----------------------------------------------------------------------------
(* The document over the runs *)

\* the fields of a record that are written once
SameOrder(r, s) ==
    /\ r.side = s.side /\ r.price = s.price /\ r.quantity = s.quantity
    /\ r.pair = s.pair /\ r.order_id = s.order_id
    /\ r.created_at = s.created_at
    /\ r.created_raw_response = s.created_raw_response
    /\ r.linked_buy_order = s.linked_buy_order

\* C22: no step removes or reorders a record of the document: every record
\* keeps its place and its side, price, quantity, pair, order_id, created_at
\* and created_raw_response; a sell record does not change at all, of a buy
\* record only status, status_raw_response and linked_sell_order may change;
\* new records are added at the end only.
C22_AppendOnly ==
    [][\A i \in DOMAIN file :
          /\ i \in DOMAIN file'
          /\ SameOrder(file[i], file'[i])
          /\ IsSell(file[i]) => file'[i] = file[i]]_vars

\* a run over a loaded store that holds a sell record is over: it changed
\* the status and the linkage of a loaded buy record and appended a record
\* behind the loaded ones
C22_Witness ==
    /\ PassDone /\ Len(loaded) >= 1 /\ Len(file) > Len(loaded)
    /\ \E i \in DOMAIN loaded :
          /\ file[i].status # loaded[i].status
          /\ file[i].linked_sell_order # loaded[i].linked_sell_order
    /\ \E j \in DOMAIN loaded : IsSell(loaded[j])

====
